---- MODULE Spec2Model ----
(***************************************************************************)
(* Model of src/main.py: a Streamlit page that loads a regression model    *)
(* once (st.cache_resource), reads three sliders and, when the button is   *)
(* pressed, calls model.predict on a one-row frame and renders the result. *)
(*                                                                         *)
(* Streamlit reruns the whole script on every user event; one script run   *)
(* is one "render cycle".  A run that reaches model.predict (line 99) is   *)
(* split there: the call into the opaque model is a step of its own.       *)
(*                                                                         *)
(* Numbers.  The iron slider is a float in steps of 0.05: it is kept in    *)
(* hundredths (66.00 is 6600).  A prediction is a float: it is kept in     *)
(* eighths (17 is 2.125), which are exact in binary floating point, so     *)
(* that the rounding of the format '.2f' is the one Python performs.       *)
(***************************************************************************)
EXTENDS Integers, Sequences, FiniteSets, TLC

VARIABLES
    artifact,      \* what is on disk at 'model.joblib'
    cache,         \* st.cache_resource entry of load_model('model.joblib'): <<>> or <<value>>
    diskReads,     \* number of joblib.load calls made by the process
    iron,          \* session widget state, hundredths of a percent
    amine,         \* session widget state
    airflow,       \* session widget state
    pc,            \* "idle": no script running; "predicting": inside model.predict;
                   \* "success" / "failed": after the try block, before line 109
    event,         \* what caused the latest script run: "none", "load", "slider", "button"
    model,         \* binding of the script's name `model` in the latest run
    pressed,       \* value st.button returned in the latest run
    request,       \* df_input built in the latest run, <<>> when none was built
    rendered,      \* elements the latest run has put on the page, in order
    escaped,       \* exception that ended the latest run, "" when none
    predictCalls,  \* number of model.predict calls issued by the latest run
    outcome,       \* what the latest model.predict call did, NoOutcome before it returns
    firstHandle,   \* history: id of the first handle load_model returned, 0 when none
    raisedBefore,  \* history: an earlier model.predict call raised
    ironSeen,      \* history: end points of the iron slider some run has read
    ranSinceChange \* history: a script run happened after the latest change on disk

vars == <<artifact, cache, diskReads, iron, amine, airflow, pc, event, model,
          pressed, request, rendered, escaped, predictCalls, outcome,
          firstHandle, raisedBefore, ironSeen, ranSinceChange>>

(***************************************************************************)
(* Bounds                                                                  *)
(***************************************************************************)
\* joblib.load is called at most this many times in a behaviour
MaxReads == 3

(***************************************************************************)
(* Slider parameters (lines 40-68)                                         *)
(***************************************************************************)
IronMin == 6000
IronMax == 7000
IronDefault == 6600
IronStep == 5
AmineMin == 240
AmineMax == 740
AmineDefault == 540
AmineStep == 1
AirflowMin == -175
AirflowMax == 305
AirflowDefault == 250
AirflowStep == 1

(***************************************************************************)
(* Values                                                                  *)
(***************************************************************************)
None == [kind |-> "None"]
Handle(n) == [kind |-> "handle", id |-> n]
Unbound == [kind |-> "unbound"]
IsHandle(m) == m.kind = "handle"

ArtifactStates == {"absent", "valid", "corrupt", "unreadable"}

(***************************************************************************)
(* Model Loader (lines 17-29)                                              *)
(***************************************************************************)
\* joblib.load(model_path): the n-th read of the file
JoblibLoad(art, n) ==
    CASE art = "valid"      -> [kind |-> "return", val |-> Handle(n)]
      [] art = "absent"     -> [kind |-> "raise", exc |-> "FileNotFoundError"]
      [] art = "corrupt"    -> [kind |-> "raise", exc |-> "UnpicklingError"]
      [] art = "unreadable" -> [kind |-> "raise", exc |-> "PermissionError"]

LoadErrorMsg ==
    [el |-> "error",
     text |-> <<"Error: No se encontro el archivo del modelo en ", "model.joblib">>]

\* the handler of load_model catches exactly this class
CaughtByLoader(exc) == exc = "FileNotFoundError"

\* body of load_model: try / except FileNotFoundError
LoadModelBody(res) ==
    IF res.kind = "return"
    THEN [kind |-> "return", val |-> res.val, msgs |-> <<>>]
    ELSE IF CaughtByLoader(res.exc)
         THEN [kind |-> "return", val |-> None, msgs |-> <<LoadErrorMsg>>]
         ELSE [kind |-> "raise", exc |-> res.exc, msgs |-> <<>>]

\* a decorator that caches nothing
CacheStoreNothing(r) == <<>>

\* a decorator that treats a None result as "no result"
CacheStoreSkipNone(r) ==
    IF r.kind = "return" /\ r.val # None THEN <<r.val>> ELSE <<>>

\* what st.cache_resource keeps of a call: any returned value, None included;
\* a call that raised leaves no entry
CacheStore(r) ==
    IF r.kind = "return" THEN <<r.val>> ELSE <<>>

\* load_model('model.joblib') through the decorator
CachedLoadModel(c, art, reads) ==
    IF c # <<>>
    THEN [out |-> [kind |-> "return", val |-> c[1], msgs |-> <<>>],
          cache |-> c, reads |-> reads]
    ELSE LET r == LoadModelBody(JoblibLoad(art, reads + 1))
         IN  [out |-> r, cache |-> CacheStore(r), reads |-> reads + 1]

(***************************************************************************)
(* Input Collector (lines 40-68)                                           *)
(***************************************************************************)
\* a slider that also accepts the position one step past max_value
SliderValuesPastMax(min, max, step) ==
    {min + k * step : k \in 0..(((max - min) \div step) + 1)}

\* the positions st.slider(min_value, max_value, step) can take
SliderValues(min, max, step) ==
    {min + k * step : k \in 0..((max - min) \div step)}

\* positions a user tries to drag a slider to; the widget keeps the valid ones
Probe(min, max, step, default) ==
    {min - step, min, min + 1, default, max, max + step}

IronChoices ==
    SliderValues(IronMin, IronMax, IronStep)
        \cap Probe(IronMin, IronMax, IronStep, IronDefault)
AmineChoices ==
    SliderValues(AmineMin, AmineMax, AmineStep)
        \cap Probe(AmineMin, AmineMax, AmineStep, AmineDefault)
AirflowChoices ==
    SliderValues(AirflowMin, AirflowMax, AirflowStep)
        \cap Probe(AirflowMin, AirflowMax, AirflowStep, AirflowDefault)

SliderElements ==
    << [el |-> "slider", text |-> <<"% de concentracion de hierro">>],
       [el |-> "slider", text |-> <<"Flujo de amina">>],
       [el |-> "slider", text |-> <<"Flujo de aire en la columa de flotacion">>] >>

(***************************************************************************)
(* Prediction Invoker (lines 84-99)                                        *)
(***************************************************************************)
\* a branch that offers the button whatever load_model returned
ModelLoadedAlways(m) == TRUE

\* line 84: if model is not None
ModelLoaded(m) == m # None

\* a control that reads as set on every rerun
ButtonValueSticky(ev) == TRUE

\* line 86: st.button is True only in the run its own click caused
ButtonValue(ev) == ev = "button"

\* a frame whose values are attached to the wrong columns
BuildRequestSwapped(am, af, fe) ==
    << [col |-> "Amina Flow", rows |-> <<af>>],
       [col |-> "Flotation Column 03 Air Flow", rows |-> <<am>>],
       [col |-> "% Iron Concentrate", rows |-> <<fe>>] >>

\* lines 91-95: df_input, columns in insertion order, one row
BuildRequest(am, af, fe) ==
    << [col |-> "Amina Flow", rows |-> <<am>>],
       [col |-> "Flotation Column 03 Air Flow", rows |-> <<af>>],
       [col |-> "% Iron Concentrate", rows |-> <<fe>>] >>

ButtonElement == [el |-> "button", text |-> <<"Predecir el porcentaje de silica">>]
WarningElement ==
    [el |-> "warning", text |-> <<"El modelo no pudo ser cargado. Por favor, verifica la ruta del archivo del modelo.">>]

(***************************************************************************)
(* What model.predict can do (the model is opaque)                         *)
(***************************************************************************)
NoOutcome == [kind |-> "none", val |-> <<>>, cause |-> ""]

\* predictions, in eighths: -1.125, 0, 0.125, 0.375, 2.125, 100.5
PredictionSamples == {-9, 0, 1, 3, 17, 804}

Causes == {"feature_names mismatch", "object has no attribute predict"}

PredictOutcomes ==
    {[kind |-> "return", val |-> <<[t |-> "float", v |-> k]>>, cause |-> ""] :
        k \in PredictionSamples}
    \cup {[kind |-> "return", val |-> <<>>, cause |-> ""],
          [kind |-> "return", val |-> <<[t |-> "str", v |-> 0]>>, cause |-> ""]}
    \cup {[kind |-> "raise", val |-> <<>>, cause |-> c] : c \in Causes}

(***************************************************************************)
(* Result Presenter (lines 99-105)                                         *)
(***************************************************************************)
DigitChar == <<"0", "1", "2", "3", "4", "5", "6", "7", "8", "9">>

RECURSIVE Digits(_)
Digits(n) ==
    IF n < 10 THEN <<DigitChar[n + 1]>>
    ELSE Digits(n \div 10) \o <<DigitChar[(n % 10) + 1]>>

Abs(k) == IF k < 0 THEN -k ELSE k

\* the hundredths nearest to k eighths, an exact tie going to the even one
RoundHundredths(k) ==
    LET n == Abs(k) * 25      \* two hundredths
        q == n \div 2
    IN  IF n % 2 = 0 THEN q
        ELSE IF q % 2 = 0 THEN q ELSE q + 1

\* format(x, '.2f') of the float k / 8, as a sequence of characters
FormatF2(k) ==
    LET h == RoundHundredths(k)
    IN  (IF k < 0 THEN <<"-">> ELSE <<>>)
        \o Digits(h \div 100)
        \o <<".", DigitChar[((h % 100) \div 10) + 1], DigitChar[(h % 10) + 1]>>

\* the f-string of line 102: prediction_value[0] indexed, then formatted
FormatPrediction(val) ==
    IF val = <<>>
    THEN [kind |-> "raise", cause |-> "index 0 is out of bounds", text |-> <<>>]
    ELSE IF val[1].t # "float"
    THEN [kind |-> "raise", cause |-> "Unknown format code f for object of type str",
          text |-> <<>>]
    ELSE [kind |-> "return", cause |-> "",
          text |-> <<"Porcentaje Predicho: ">> \o FormatF2(val[1].v) \o <<"%">>]

SubheaderElement == [el |-> "subheader", text |-> <<"Resultado de la Prediccion">>]
InfoElement ==
    [el |-> "info", text |-> <<"Este valor representa el porcentaje de silica presente en la operacion.">>]
PredictionErrorPrefix == "Ocurrio un error durante la prediccion: "

\* a handler whose message leaves the exception out
ExceptBlockNoCause(cause, r) ==
    [pc |-> "failed", escaped |-> "",
     rendered |-> Append(r, [el |-> "prediction_error", text |-> <<PredictionErrorPrefix>>])]

\* lines 104-105: except Exception as e: st.error(f"...: {e}")
ExceptBlock(cause, r) ==
    [pc |-> "failed", escaped |-> "",
     rendered |-> Append(r, [el |-> "prediction_error",
                             text |-> <<PredictionErrorPrefix, cause>>])]

\* a try block that ends after the predict call, the rendering left outside it
TryBlockPredictOnly(o, r) ==
    IF o.kind = "raise" THEN ExceptBlock(o.cause, r)
    ELSE LET f == FormatPrediction(o.val)
         IN  IF f.kind = "raise"
             THEN [pc |-> "idle", escaped |-> f.cause, rendered |-> Append(r, SubheaderElement)]
             ELSE [pc |-> "success", escaped |-> "",
                   rendered |-> r \o <<SubheaderElement,
                                       [el |-> "success", text |-> f.text],
                                       InfoElement>>]

\* lines 98-105, from the return of model.predict: o is what the call did,
\* r what the run has rendered so far
TryBlock(o, r) ==
    IF o.kind = "raise" THEN ExceptBlock(o.cause, r)
    ELSE LET f == FormatPrediction(o.val)
         IN  IF f.kind = "raise"
             THEN ExceptBlock(f.cause, Append(r, SubheaderElement))
             ELSE [pc |-> "success", escaped |-> "",
                   rendered |-> r \o <<SubheaderElement,
                                       [el |-> "success", text |-> f.text],
                                       InfoElement>>]

(***************************************************************************)
(* The script, run on every event                                          *)
(***************************************************************************)
Has(r, kind) == \E i \in 1..Len(r) : r[i].el = kind
Count(r, kind) == Cardinality({i \in 1..Len(r) : r[i].el = kind})

Init ==
    /\ artifact \in ArtifactStates
    /\ cache = <<>>
    /\ diskReads = 0
    /\ iron = IronDefault
    /\ amine = AmineDefault
    /\ airflow = AirflowDefault
    /\ pc = "idle"
    /\ event = "none"
    /\ model = Unbound
    /\ pressed = FALSE
    /\ request = <<>>
    /\ rendered = <<>>
    /\ escaped = ""
    /\ predictCalls = 0
    /\ outcome = NoOutcome
    /\ firstHandle = 0
    /\ raisedBefore = FALSE
    /\ ironSeen = {}
    /\ ranSinceChange = FALSE

\* lines 8-107 of one run caused by event ev, with the widget state fe, am, af;
\* a run that reaches model.predict stops there, any other run goes on to the
\* end of the script (lines 109-125 render static text)
RunScript(ev, fe, am, af) ==
    LET L == CachedLoadModel(cache, artifact, diskReads)
    IN  /\ pc = "idle"
        /\ cache # <<>> \/ diskReads < MaxReads
        /\ event' = ev
        /\ cache' = L.cache
        /\ diskReads' = L.reads
        /\ iron' = fe
        /\ amine' = am
        /\ airflow' = af
        /\ outcome' = NoOutcome
        /\ ranSinceChange' = TRUE
        /\ UNCHANGED <<artifact, raisedBefore>>
        /\ IF L.out.kind = "raise"
           THEN \* line 29 raised: the run ends there
                /\ model' = Unbound
                /\ escaped' = L.out.exc
                /\ rendered' = <<>>
                /\ pressed' = FALSE
                /\ request' = <<>>
                /\ predictCalls' = 0
                /\ pc' = "idle"
                /\ UNCHANGED <<firstHandle, ironSeen>>
           ELSE /\ model' = L.out.val
                /\ escaped' = ""
                /\ firstHandle' = IF firstHandle = 0 /\ IsHandle(L.out.val)
                                  THEN L.out.val.id ELSE firstHandle
                /\ ironSeen' = ironSeen \cup ({fe} \cap {IronMin, IronMax})
                /\ IF ModelLoaded(L.out.val)
                   THEN /\ pressed' = ButtonValue(ev)
                        /\ IF ButtonValue(ev)
                           THEN /\ request' = BuildRequest(am, af, fe)
                                /\ predictCalls' = 1
                                /\ pc' = "predicting"
                           ELSE /\ request' = <<>>
                                /\ predictCalls' = 0
                                /\ pc' = "idle"
                        /\ rendered' = L.out.msgs \o SliderElements \o <<ButtonElement>>
                   ELSE /\ pressed' = FALSE
                        /\ request' = <<>>
                        /\ predictCalls' = 0
                        /\ pc' = "idle"
                        /\ rendered' = L.out.msgs \o SliderElements \o <<WarningElement>>

\* a browser opens (or reloads) the page: a new session, widgets at their defaults
PageLoad ==
    RunScript("load", IronDefault, AmineDefault, AirflowDefault)

\* the user moves one slider of the page the latest run rendered
SliderChange ==
    /\ Has(rendered, "slider")
    /\ \/ \E v \in IronChoices \ {iron} : RunScript("slider", v, amine, airflow)
       \/ \E v \in AmineChoices \ {amine} : RunScript("slider", iron, v, airflow)
       \/ \E v \in AirflowChoices \ {airflow} : RunScript("slider", iron, amine, v)

\* the user presses the button of the page the latest run rendered
ButtonPress ==
    /\ Has(rendered, "button")
    /\ RunScript("button", iron, amine, airflow)

\* model.predict(df_input) returns or raises, and the try statement completes
PredictReturns ==
    /\ pc = "predicting"
    /\ \E o \in PredictOutcomes :
          LET t == TryBlock(o, rendered)
          IN  /\ outcome' = o
              /\ pc' = t.pc
              /\ rendered' = t.rendered
              /\ escaped' = t.escaped
              /\ raisedBefore' = (raisedBefore \/ o.kind = "raise")
    /\ UNCHANGED <<artifact, cache, diskReads, iron, amine, airflow, event, model,
                   pressed, request, predictCalls, firstHandle, ironSeen,
                   ranSinceChange>>

\* lines 109-125: the divider and the expander, then the run ends
FinishRun ==
    /\ pc \in {"success", "failed"}
    /\ pc' = "idle"
    /\ UNCHANGED <<artifact, cache, diskReads, iron, amine, airflow, event, model,
                   pressed, request, rendered, escaped, predictCalls, outcome,
                   firstHandle, raisedBefore, ironSeen, ranSinceChange>>

\* the file at 'model.joblib' is created, replaced, damaged or removed
ArtifactChange ==
    /\ \E a \in ArtifactStates \ {artifact} : artifact' = a
    /\ ranSinceChange' = FALSE
    /\ UNCHANGED <<cache, diskReads, iron, amine, airflow, pc, event, model,
                   pressed, request, rendered, escaped, predictCalls, outcome,
                   firstHandle, raisedBefore, ironSeen>>

Next ==
    \/ PageLoad
    \/ SliderChange
    \/ ButtonPress
    \/ PredictReturns
    \/ FinishRun
    \/ ArtifactChange

Spec == Init /\ [][Next]_vars

\* the call into the model returns and the script runs to its end
FairSpec == Spec /\ WF_vars(PredictReturns) /\ WF_vars(FinishRun)

(***************************************************************************)
(* Properties                                                              *)
(***************************************************************************)
Ran == event # "none"
ButtonOffered == Has(rendered, "button")

\* C1: however the artifact fails to load (absent, unreadable, corrupt), no
\* exception leaves load_model: the run gets None and offers no predict control
C1_LoadFailureNeverEscapes ==
    (Ran /\ ~IsHandle(model)) =>
        (escaped = "" /\ model = None /\ ~ButtonOffered)

IsDigit(ch) == \E d \in 1..10 : DigitChar[d] = ch
DigitVal(ch) == CHOOSE d \in 0..9 : DigitChar[d + 1] = ch

RECURSIVE ParseNat(_)
ParseNat(s) ==
    IF s = <<>> THEN 0
    ELSE ParseNat(SubSeq(s, 1, Len(s) - 1)) * 10 + DigitVal(s[Len(s)])

\* body reads [-]digits.dd and is within half a hundredth of k eighths
TwoDecimalsOf(body, k) ==
    LET neg == body # <<>> /\ body[1] = "-"
        d == IF neg THEN Tail(body) ELSE body
        n == Len(d)
    IN  /\ n >= 4
        /\ d[n - 2] = "."
        /\ \A i \in (1..n) \ {n - 2} : IsDigit(d[i])
        /\ neg <=> (k < 0)
        /\ LET h == ParseNat(SubSeq(d, 1, n - 3)) * 100 + ParseNat(SubSeq(d, n - 1, n))
           IN  Abs(8 * h - 100 * Abs(k)) <= 4

C3_ReadOnceSameHandle ==
    /\ diskReads <= 1
    /\ IsHandle(model) => model.id = firstHandle

\* C4: model.predict is called at most once per run and only in a run caused by
\* a press of the button; a run caused by a slider or a page load never calls it
C4_PredictOnlyOnPress ==
    /\ predictCalls <= 1
    /\ predictCalls = 1 => (pressed /\ event = "button")
    /\ pc \in {"predicting", "success", "failed"} => predictCalls = 1
    /\ event \in {"load", "slider"} => (predictCalls = 0 /\ outcome = NoOutcome)

\* a slider was moved on a page that offers the button, and nothing was predicted
C4_Witness ==
    /\ event = "slider"
    /\ IsHandle(model)
    /\ ButtonOffered
    /\ iron # IronDefault
    /\ predictCalls = 0

\* C5: the request built on a trigger is one row with the columns 'Amina Flow',
\* 'Flotation Column 03 Air Flow', '% Iron Concentrate' in this order, each
\* holding the current value of its own slider
C5_RequestColumns ==
    /\ pc = "predicting" => request # <<>>
    /\ request # <<>> =>
          /\ Len(request) = 3
          /\ request[1] = [col |-> "Amina Flow", rows |-> <<amine>>]
          /\ request[2] = [col |-> "Flotation Column 03 Air Flow", rows |-> <<airflow>>]
          /\ request[3] = [col |-> "% Iron Concentrate", rows |-> <<iron>>]

\* a request built after all three sliders were moved off their defaults
C5_Witness ==
    /\ request # <<>>
    /\ iron # 6600
    /\ amine # 540
    /\ airflow # 250

C7_PredictFailureIsLocal ==
    /\ outcome.kind = "raise" =>
          /\ \E i \in 1..Len(rendered) :
                /\ rendered[i].el = "prediction_error"
                /\ rendered[i].text[Len(rendered[i].text)] = outcome.cause
          /\ ~Has(rendered, "success")
          /\ escaped = ""
          /\ ButtonOffered
    /\ raisedBefore =>
          /\ cache # <<>>
          /\ IsHandle(cache[1])
          /\ cache[1].id = firstHandle
          /\ (pc = "idle" /\ escaped = "") => ButtonOffered
          /\ (outcome.kind = "return" /\ FormatPrediction(outcome.val).kind = "return")
                => Has(rendered, "success")

\* an earlier call raised and the latest call ended in a success message
C7_Witness ==
    /\ raisedBefore
    /\ pc = "success"
    /\ Has(rendered, "success")

\* the state of the application as the page shows it
AppState ==
    CASE pc = "predicting" -> "Predicting"
      [] pc = "success"    -> "Success"
      [] pc = "failed"     -> "Failed"
      [] OTHER -> IF ~Ran \/ ButtonOffered THEN "Idle"
                  ELSE IF Has(rendered, "warning") THEN "Disabled"
                  ELSE "Aborted"

AppTransitions ==
    {<<"Idle", "Disabled">>, <<"Idle", "Predicting">>,
     <<"Predicting", "Success">>, <<"Predicting", "Failed">>,
     <<"Success", "Idle">>, <<"Failed", "Idle">>}

\* C8: the application is always Idle, Disabled, Predicting, Success or Failed,
\* it moves only Idle -> Disabled, Idle -> Predicting, Predicting -> Success or
\* Failed, Success or Failed -> Idle, and Predicting leads to Idle
C8_StateMachine ==
    /\ [](AppState \in {"Idle", "Disabled", "Predicting", "Success", "Failed"})
    /\ [][AppState' = AppState \/ <<AppState, AppState'>> \in AppTransitions]_vars
    /\ (AppState = "Predicting") ~> (AppState = "Idle")

C10_DisabledIsAbsorbing ==
    [][(Ran /\ model = None) =>
          /\ diskReads' = diskReads
          /\ model' = None
          /\ cache' = <<None>>
          /\ ~Has(rendered', "button")
          /\ pc' = "idle"]_vars

\* the file is valid now, a run happened since it appeared, and the run got None
C10_Witness ==
    /\ model = None
    /\ artifact = "valid"
    /\ ranSinceChange
    /\ ~ButtonOffered

====
